---- MODULE Spec2Model ----
(***************************************************************************)
(* createEnv of @oviirup/env (src/unnamed/part_001) and the reads of the   *)
(* object it returns.  One call of createEnv is one action; afterwards the *)
(* caller reads properties of the returned object (the Proxy get trap).    *)
(* createEnv of the Next.js entry point (src/src/index.ts) builds an       *)
(* options object and calls the former with it.                            *)
(*                                                                         *)
(*   Spec          createEnv, then reads                                   *)
(*   SpecMutation  createEnv, then reads, assignments and deletes          *)
(*   SpecNextJs    createEnv of the Next.js entry point, then reads        *)
(*   SpecTwice     createEnv called twice with the same objects            *)
(*                                                                         *)
(* zod, the schema engine, is an external library: a field schema is one   *)
(* of a few zod types the repository's tests, presets and readme use, and  *)
(* z.object(..).extend(..).safeParse(..) is modelled by what zod does with *)
(* them (unknown keys are stripped, one issue per failing field, issues in *)
(* the order of the shape's keys).                                         *)
(***************************************************************************)
EXTENDS Integers, Sequences, FiniteSets, TLC

VARIABLES
  opts,           \* the options object handed to createEnv (all but opts.vars)
  callerOpts,     \* the options object as the caller wrote it (history, as initialVars)
  hasWindow,      \* whether a global `window` exists (typeof window)
  runtimeEnv,     \* the caller's opts.vars object; createEnv mutates it in place
  initialVars,    \* opts.vars as it was before the call (history, never read by the code)
  pc,             \* "start" before the call, "done" after createEnv returned or threw,
                  \* "again" after a second call
  result,         \* what createEnv returned or threw
  onErrorCalls,   \* the calls of onValidationError: the issues passed and what it did
  consoleErrors,  \* the lines written with console.error, in order
  onBreachCalls,  \* the arguments onInvalidAccess was called with, in order
  lastRead        \* the outcome of the latest property read of the returned object

vars == <<opts, callerOpts, hasWindow, runtimeEnv, initialVars, pc, result, onErrorCalls, consoleErrors,
           onBreachCalls, lastRead>>

----------------------------------------------------------------------------
(* JavaScript values.  v is always a string so that values of different    *)
(* types can be compared; t is the value's typeof.                         *)

Str(s) == [t |-> "string", v |-> s]
Num(s) == [t |-> "number", v |-> s]
Bool(s) == [t |-> "boolean", v |-> s]
Undefined == [t |-> "undefined", v |-> ""]

\* A plain object: a function from its own keys to values.
EmptyObject == [k \in {} |-> Undefined]

\* obj[key], undefined when the object has no such key
GetProp(obj, key) == IF key \in DOMAIN obj THEN obj[key] ELSE Undefined

\* Object.assign(target, source)
ObjectAssign(target, source) ==
  [k \in DOMAIN target \cup DOMAIN source |->
     IF k \in DOMAIN source THEN source[k] ELSE target[k]]

\* String.prototype.startsWith
StartsWith(s, p) == Len(p) <= Len(s) /\ SubSeq(s, 1, Len(p)) = p

Digits == {"0", "1", "2", "3", "4", "5", "6", "7", "8", "9"}

\* Number(s) of a string, as the text of the number: the empty string is 0, a
\* string of digits is that number, any other string is NaN.  (Signs,
\* fractions, exponents, surrounding blanks and leading zeros do not occur in
\* the values of the model.)
NumberOf(s) ==
  IF s = "" THEN "0"
  ELSE IF \A i \in 1..Len(s) : SubSeq(s, i, i) \in Digits THEN s
  ELSE "NaN"

RECURSIVE JoinFrom(_, _, _)
JoinFrom(parts, sep, i) ==
  IF i > Len(parts) THEN ""
  ELSE IF i = Len(parts) THEN parts[i]
  ELSE parts[i] \o sep \o JoinFrom(parts, sep, i + 1)

\* Array.prototype.join
Join(parts, sep) == JoinFrom(parts, sep, 1)

----------------------------------------------------------------------------
(* zod.  A field schema is one of:                                         *)
(*   "string"   z.string()              "optional"  z.string().optional()  *)
(*   "default"  z.string().default(..)  "number"    z.number()             *)
(*   "transform"  z.string().transform(Number)                             *)
(* A shape is the ordered list of an object schema's fields.               *)

DefaultValue == Str("dflt")

Field(key, schema) == [key |-> key, schema |-> schema]

ShapeKeys(shape) == {shape[i].key : i \in DOMAIN shape}

\* prop in shape
InShape(prop, shape) == prop \in ShapeKeys(shape)

SchemaOf(shape, key) == shape[CHOOSE i \in DOMAIN shape : shape[i].key = key].schema

\* a.extend(b.shape): { ...a.shape, ...b.shape }.  A key of both keeps its place
\* in a and takes b's schema; the keys only b has follow in b's order.
Extend(a, b) ==
  LET overridden == [i \in DOMAIN a |->
                       IF InShape(a[i].key, b)
                       THEN Field(a[i].key, SchemaOf(b, a[i].key))
                       ELSE a[i]]
      IsNew(f) == ~InShape(f.key, a)
  IN  overridden \o SelectSeq(b, IsNew)

\* Whether one field schema accepts the input's value for its key.
Accepts(schema, present, value) ==
  CASE schema = "string"   -> present /\ value.t = "string"
    [] schema = "optional" -> ~present \/ value.t \in {"string", "undefined"}
    [] schema = "default"  -> ~present \/ value.t \in {"string", "undefined"}
    [] schema = "number"   -> present /\ value.t = "number"
    [] schema = "transform" -> present /\ value.t = "string"

\* Whether the parsed output has the key at all.
Outputs(schema, present, value) ==
  CASE schema = "optional" -> present
    [] OTHER               -> TRUE

\* Mutant: the parsed value is the input value, whatever the schema.
OutputValueAsGiven(schema, present, value) ==
  IF schema = "default" /\ (~present \/ value.t = "undefined")
  THEN DefaultValue
  ELSE value

\* The parsed value of an accepted field.
OutputValue(schema, present, value) ==
  IF schema = "default" /\ (~present \/ value.t = "undefined")
  THEN DefaultValue
  ELSE IF schema = "transform" THEN Num(NumberOf(value.v))
  ELSE value

\* Mutant: a strict object schema, every key the shape lacks is an issue.
SafeParseStrict(shape, input) ==
  LET Present(k) == k \in DOMAIN input
      Ok(f) == Accepts(f.schema, Present(f.key), GetProp(input, f.key))
      Fails(f) == ~Ok(f)
      failing == SelectSeq(shape, Fails)
      unknown == DOMAIN input \ ShapeKeys(shape)
      issues == [i \in DOMAIN failing |-> failing[i].key]
                  \o (IF unknown = {} THEN <<>> ELSE <<"">>)
      kept == {k \in ShapeKeys(shape) :
                 Outputs(SchemaOf(shape, k), Present(k), GetProp(input, k))}
      data == [k \in kept |->
                 OutputValue(SchemaOf(shape, k), Present(k), GetProp(input, k))]
  IN  [success |-> issues = <<>>,
       data    |-> IF issues = <<>> THEN data ELSE EmptyObject,
       issues  |-> issues]

\* Mutant: a loose object schema, the keys the shape lacks pass through.
SafeParseLoose(shape, input) ==
  LET Present(k) == k \in DOMAIN input
      Ok(f) == Accepts(f.schema, Present(f.key), GetProp(input, f.key))
      Fails(f) == ~Ok(f)
      failing == SelectSeq(shape, Fails)
      issues == [i \in DOMAIN failing |-> failing[i].key]
      kept == {k \in ShapeKeys(shape) :
                 Outputs(SchemaOf(shape, k), Present(k), GetProp(input, k))}
      data == [k \in kept \cup (DOMAIN input \ ShapeKeys(shape)) |->
                 IF k \in kept
                 THEN OutputValue(SchemaOf(shape, k), Present(k), GetProp(input, k))
                 ELSE input[k]]
  IN  [success |-> issues = <<>>,
       data    |-> IF issues = <<>> THEN data ELSE EmptyObject,
       issues  |-> issues]

\* z.object(shape).safeParse(input): unknown keys are stripped, every failing
\* field gives one issue whose path is its key, in the order of the shape.
SafeParse(shape, input) ==
  LET Present(k) == k \in DOMAIN input
      Ok(f) == Accepts(f.schema, Present(f.key), GetProp(input, f.key))
      Fails(f) == ~Ok(f)
      failing == SelectSeq(shape, Fails)
      issues == [i \in DOMAIN failing |-> failing[i].key]
      kept == {k \in ShapeKeys(shape) :
                 Outputs(SchemaOf(shape, k), Present(k), GetProp(input, k))}
      data == [k \in kept |->
                 OutputValue(SchemaOf(shape, k), Present(k), GetProp(input, k))]
  IN  [success |-> issues = <<>>,
       data    |-> IF issues = <<>> THEN data ELSE EmptyObject,
       issues  |-> issues]

----------------------------------------------------------------------------
(* createEnv                                                               *)

INVALID_ENV == "Invalid environment variables"
INVALID_ACCESS == "Attempted to access a server-side environment variable on the client"

\* What a call ended with.  kind is
\*   "raw"      the runtimeEnv object itself was returned (skip)
\*   "proxy"    the Proxy over `target` was returned
\*   "returned" the value opts.onError returned was returned
\*   "thrown"   an error with `message` was thrown
Outcome(kind, target, value, message) ==
  [kind |-> kind, target |-> target, value |-> value, message |-> message]

NoOutcome == Outcome("none", EmptyObject, Undefined, "")

\* A caller-supplied handler either throws or returns a value.
Throws(message) == [kind |-> "throw", value |-> Undefined, message |-> message]
Returns(value) == [kind |-> "return", value |-> value, message |-> ""]

\* Mutant: if (!value) delete ..., every falsy value is pruned.
PruneFalsy(env) ==
  [k \in {key \in DOMAIN env :
            env[key] \notin {Str(""), Num("0"), Bool("false"), Undefined}} |-> env[k]]

\* for (const [key, value] of Object.entries(runtimeEnv))
\*   if (value === "") delete runtimeEnv[key]
Prune(env) == [k \in {key \in DOMAIN env : env[key] # Str("")} |-> env[k]]

\* opts.isServer ?? typeof window === "undefined"
IsServer(o, window) ==
  IF o.isServer = "unset" THEN ~window ELSE o.isServer = "true"

\* Mutant: the client schema also holds the server fields.
AllClientWithServer(o) == Extend(Extend(o.client, o.shared), o.server)

AllClient(o) == Extend(o.client, o.shared)

\* Mutant: the shared fields are extended last and override the client fields.
AllServerSharedLast(o) == Extend(Extend(o.server, o.client), o.shared)

AllServer(o) == Extend(Extend(o.server, o.shared), o.client)

\* Mutant: the context is not consulted, every field is validated.
SelectedShapeAlwaysServer(o, window) == AllServer(o)

\* The schema createEnv validates against.
SelectedShape(o, window) ==
  IF IsServer(o, window) THEN AllServer(o) ELSE AllClient(o)

\* Mutant: opts.strict is read and selects a strict object schema.
ParsedHonouringStrict(o, env, window) ==
  IF o.strict
  THEN SafeParseStrict(SelectedShape(o, window), Prune(env))
  ELSE SafeParse(SelectedShape(o, window), Prune(env))

Parsed(o, env, window) == SafeParse(SelectedShape(o, window), Prune(env))

\* Mutant: only the first issue is reported.
ErrorVarsFirstOnly(issues) == issues[1]

\* error.issues.map((e) => e.path).join(", ")
ErrorVars(issues) == Join(issues, ", ")

\* onValidationError(parsed.error): opts.onError if supplied, else the default,
\* which logs and throws.  h is what a supplied handler does when called.
OnValidationError(o, issues, h) ==
  IF o.onError
  THEN [console |-> <<>>, did |-> h]
  ELSE [console |-> <<"Invalid environment variables: " \o ErrorVars(issues)>>,
        did     |-> Throws(INVALID_ENV \o ": " \o ErrorVars(issues))]

\* Mutant: the `return` is missing, so after a handler that returns createEnv
\* goes on to Object.assign(parsed.data, ..) with parsed.data undefined.
ReturnHandledFallsThrough(did) ==
  IF did.kind = "throw"
  THEN Outcome("thrown", EmptyObject, Undefined, did.message)
  ELSE Outcome("thrown", EmptyObject, Undefined,
               "TypeError: Cannot convert undefined or null to object")

\* return onValidationError(parsed.error)
ReturnHandled(did) ==
  IF did.kind = "throw"
  THEN Outcome("thrown", EmptyObject, Undefined, did.message)
  ELSE Outcome("returned", EmptyObject, did.value, "")

RECURSIVE ReduceAssign(_, _, _)
ReduceAssign(acc, objects, i) ==
  IF i > Len(objects) THEN acc
  ELSE ReduceAssign(ObjectAssign(acc, objects[i]), objects, i + 1)

\* (opts.extends ?? []).reduce((acc, curr) => Object.assign(acc, curr), {})
PresetsEnvSet(o) == ReduceAssign(EmptyObject, o.extends, 1)

\* Mutant: reduce is called without its initial value {}, so the first
\* extension object is the accumulator and receives the keys of the others.
ExtendsAfterReduceNoInitialValue(objects) ==
  IF objects = <<>> THEN objects
  ELSE [objects EXCEPT ![1] = ReduceAssign(objects[1], objects, 2)]

\* The extension objects after the reduce: Object.assign writes to the
\* accumulator, which starts as a new {}, and only reads each curr.
ExtendsAfterReduce(objects) == [i \in DOMAIN objects |-> objects[i]]

\* Mutant: the validated values are assigned over the extensions.
CompleteEnvSetValidatedWins(o, data) == ObjectAssign(PresetsEnvSet(o), data)

\* Object.assign(parsed.data, presetsEnvSet)
CompleteEnvSet(o, data) == ObjectAssign(data, PresetsEnvSet(o))

\* Mutant: opts.skip is looked at before the vars object is pruned.
CreateEnvResultSkipBeforePrune(o, env, window, h) ==
  LET pruned == Prune(env)
      parsed == Parsed(o, env, window)
      failed == OnValidationError(o, parsed.issues, h)
  IN  IF o.skip
      THEN [runtimeEnv |-> env, onErrorCalls |-> <<>>, console |-> <<>>,
            outcome |-> Outcome("raw", env, Undefined, "")]
      ELSE IF ~parsed.success
      THEN [runtimeEnv |-> pruned,
            onErrorCalls |-> <<[issues |-> parsed.issues, did |-> failed.did]>>,
            console |-> failed.console, outcome |-> ReturnHandled(failed.did)]
      ELSE [runtimeEnv |-> pruned, onErrorCalls |-> <<>>, console |-> <<>>,
            outcome |-> Outcome("proxy", CompleteEnvSet(o, parsed.data), Undefined, "")]

\* Mutant: opts.skip is looked at only after the values were validated.
CreateEnvResultSkipAfterParse(o, env, window, h) ==
  LET pruned == Prune(env)
      parsed == Parsed(o, env, window)
      failed == OnValidationError(o, parsed.issues, h)
  IN  IF ~parsed.success
      THEN [runtimeEnv |-> pruned,
            onErrorCalls |-> <<[issues |-> parsed.issues, did |-> failed.did]>>,
            console |-> failed.console, outcome |-> ReturnHandled(failed.did)]
      ELSE IF o.skip
      THEN [runtimeEnv |-> pruned, onErrorCalls |-> <<>>, console |-> <<>>,
            outcome |-> Outcome("raw", pruned, Undefined, "")]
      ELSE [runtimeEnv |-> pruned, onErrorCalls |-> <<>>, console |-> <<>>,
            outcome |-> Outcome("proxy", CompleteEnvSet(o, parsed.data), Undefined, "")]

\* The options object after createEnv(opts): the schema groups are wrapped by
\* z.object and extended into new schemas, never written; the extension
\* objects go through the reduce when the values validate.
OptionsAfter(o, env, window) ==
  IF o.skip \/ ~Parsed(o, env, window).success
  THEN o
  ELSE [o EXCEPT !.extends = ExtendsAfterReduce(o.extends)]

\* createEnv(opts) with opts.vars = env: the pruned vars object, the calls of
\* the validation handler, the console lines and the outcome.
CreateEnvResult(o, env, window, h) ==
  LET pruned == Prune(env)
      parsed == Parsed(o, env, window)
      failed == OnValidationError(o, parsed.issues, h)
  IN  IF o.skip
      THEN [runtimeEnv |-> pruned, onErrorCalls |-> <<>>, console |-> <<>>,
            outcome |-> Outcome("raw", pruned, Undefined, "")]
      ELSE IF ~parsed.success
      THEN [runtimeEnv |-> pruned,
            onErrorCalls |-> <<[issues |-> parsed.issues, did |-> failed.did]>>,
            console |-> failed.console, outcome |-> ReturnHandled(failed.did)]
      ELSE [runtimeEnv |-> pruned, onErrorCalls |-> <<>>, console |-> <<>>,
            outcome |-> Outcome("proxy", CompleteEnvSet(o, parsed.data), Undefined, "")]

----------------------------------------------------------------------------
(* The Proxy's get trap                                                    *)

\* Mutant: without a prefix nothing counts as a server access.
IsServerAccessUnrestricted(o, prop) ==
  IF ~o.prefix.defined \/ o.prefix.s = "" THEN FALSE
  ELSE ~StartsWith(prop, o.prefix.s) /\ ~InShape(prop, o.shared)

IsServerAccess(o, prop) ==
  IF ~o.prefix.defined \/ o.prefix.s = "" THEN TRUE
  ELSE ~StartsWith(prop, o.prefix.s) /\ ~InShape(prop, o.shared)

\* Mutant: the negation of isServerAccess is forgotten.
IsValidServerAccessNotNegated(o, window, prop) ==
  IsServer(o, window) \/ IsServerAccess(o, prop)

\* Mutant: the context is not consulted.
IsValidServerAccessAnyContext(o, window, prop) ==
  ~IsServerAccess(o, prop)

IsValidServerAccess(o, window, prop) ==
  IsServer(o, window) \/ ~IsServerAccess(o, prop)

IgnoreProp(prop) == prop = "__esModule" \/ prop = "$$typeof"

\* What onInvalidAccess does: opts.onBreach if supplied, else the default, which throws.
OnInvalidAccess(o, prop, h) ==
  IF o.onBreach THEN h ELSE Throws(INVALID_ACCESS \o ": " \o prop)

\* One read of property `prop` of what createEnv returned: the arguments
\* onInvalidAccess is called with and what the read evaluates to (or throws).
\* A skip result is the plain vars object, read without any trap.
GetTrap(o, window, res, prop, h) ==
  IF res.kind = "raw"
  THEN [calls |-> <<>>, got |-> Returns(GetProp(res.target, prop))]
  ELSE IF IgnoreProp(prop)
  THEN [calls |-> <<>>, got |-> Returns(Undefined)]
  ELSE IF ~IsValidServerAccess(o, window, prop)
  THEN [calls |-> <<prop>>, got |-> OnInvalidAccess(o, prop, h)]
  ELSE [calls |-> <<>>, got |-> Returns(GetProp(res.target, prop))]

----------------------------------------------------------------------------
(* createEnv of the Next.js entry point                                    *)

CLIENT_PREFIX == "NEXT_PUBLIC_"

\* Mutant: the caller's options are spread last, so its strict and prefix win.
NextOptionsCallerWins(o) ==
  ObjectAssign([server |-> o.server, client |-> o.client, shared |-> o.shared,
                strict |-> TRUE,
                prefix |-> [defined |-> TRUE, s |-> CLIENT_PREFIX]], o)

\* { ...opts, server, client, shared, vars: envs, strict: true, prefix: CLIENT_PREFIX }
\* A group that is not an object is the empty shape already; vars is passed
\* beside the options.
NextOptions(o) ==
  ObjectAssign(o, [server |-> o.server, client |-> o.client, shared |-> o.shared,
                   strict |-> TRUE,
                   prefix |-> [defined |-> TRUE, s |-> CLIENT_PREFIX]])

----------------------------------------------------------------------------
(* Inputs                                                                  *)

\* How many calls of onInvalidAccess a behaviour records.
MaxBreachCalls == 2

\* How many objects opts.extends holds at most.
MaxExtends == 2

NoPrefix == [defined |-> FALSE, s |-> ""]
Prefix(s) == [defined |-> TRUE, s |-> s]
Prefixes == {NoPrefix, Prefix(""), Prefix("FOO_")}

Keys == {"BAR", "FOO_BAR"}
Schemas == {"string", "optional", "default", "number"}

\* The property names the caller reads.
ReadProps == {"BAR", "FOO_BAR", "FOO_BAZ", "__esModule", "$$typeof"}

\* What a caller-supplied onError or onBreach may do.
HandlerOutcomes == {Throws("handler error"), Returns(Str("fallback"))}

\* What the handler of a call does: one of the above when the caller supplied
\* it, nothing to choose when the default is used.
HandlerChoices(supplied) == IF supplied THEN HandlerOutcomes ELSE {Throws("")}

\* (opts.isServer, whether window exists)
Contexts == {<<"true", TRUE>>, <<"false", FALSE>>, <<"unset", TRUE>>, <<"unset", FALSE>>}
ExplicitContexts == {<<"true", TRUE>>, <<"false", FALSE>>}

\* The options object.  A group that is not given is the empty shape, as
\* `typeof opts.client === "object" ? opts.client : {}` makes it; isServer is
\* "true", "false" or "unset"; onError and onBreach say whether the caller
\* supplied the handler.
Options(prefix, server, client, shared, strict, isServer, extends, skip, onError, onBreach) ==
  [prefix |-> prefix, server |-> server, client |-> client, shared |-> shared,
   strict |-> strict, isServer |-> isServer, extends |-> extends, skip |-> skip,
   onError |-> onError, onBreach |-> onBreach]

Input(o, window, env) == [opts |-> o, window |-> window, vars |-> env]

\* Inputs that exercise the guard: every prefix, context and placement of the
\* two names in the three groups, with values every schema accepts.
NameShapes == {<<>>} \cup {<<Field(k, "string")>> : k \in Keys}
GuardExtends == {<<>>, <<("BAR" :> Str("preset")) @@ ("__esModule" :> Str("mod"))>>}
GuardVars == ("BAR" :> Str("bar")) @@ ("FOO_BAR" :> Str("foo"))
GuardInputs ==
  {Input(Options(p, sv, cl, sh, FALSE, c[1], ext, FALSE, FALSE, ob), c[2], GuardVars) :
     p \in Prefixes, sv \in NameShapes, cl \in NameShapes, sh \in NameShapes,
     c \in Contexts, ext \in GuardExtends, ob \in BOOLEAN}

\* Inputs that exercise validation: every schema on a server and a client
\* field, fields declared in two groups, and values that are missing, empty,
\* of the wrong type, or not declared at all.
ServerShapes == {<<>>, <<Field("FOO_BAR", "string")>>}
                  \cup {<<Field("BAR", s)>> : s \in Schemas}
ClientShapes == {<<>>, <<Field("BAR", "string")>>}
                  \cup {<<Field("FOO_BAR", s)>> : s \in Schemas}
SharedShapes == {<<>>, <<Field("BAR", "string")>>, <<Field("FOO_BAR", "number")>>}
VarValues(k) ==
  CASE k = "BAR"     -> {Str(""), Str("bar"), Num("0"), Bool("false")}
    [] k = "FOO_BAR" -> {Str(""), Str("foo")}
    [] k = "FOO_BAZ" -> {Str("baz")}
VarKeys == {"BAR", "FOO_BAR", "FOO_BAZ"}
\* every object over a subset of VarKeys, each key's value from its own set
ValidationVars ==
  UNION {{f \in [d -> UNION {VarValues(k) : k \in d}] : \A k \in d : f[k] \in VarValues(k)} :
           d \in SUBSET VarKeys}
ValidationInputs ==
  {Input(Options(Prefix("FOO_"), sv, cl, sh, st, c[1], <<>>, FALSE, oe, FALSE), c[2], env) :
     sv \in ServerShapes, cl \in ClientShapes, sh \in SharedShapes,
     st \in BOOLEAN, c \in ExplicitContexts, oe \in BOOLEAN, env \in ValidationVars}

\* Inputs that exercise the extension merge and skip: lists of extension
\* objects that define the same key, over a descriptor whose validation
\* succeeds or fails with the values.
ExtObjects == {("BAR" :> Str("preset1")),
               ("BAR" :> Str("preset2")) @@ ("EXTRA" :> Str("x"))}
ExtendsLists == UNION {[1..n -> ExtObjects] : n \in 0..MaxExtends}
ExtensionVars == {GuardVars, ("FOO_BAR" :> Str("foo")),
                  ("BAR" :> Str("")) @@ ("FOO_BAR" :> Str("foo"))}
ExtClientShapes == {<<Field("FOO_BAR", "optional")>>, <<Field("FOO_BAR", "number")>>}
ExtensionInputs ==
  {Input(Options(Prefix("FOO_"), <<Field("BAR", "string")>>, cl,
                 <<>>, FALSE, c[1], ext, sk, oe, FALSE), c[2], env) :
     cl \in ExtClientShapes, c \in ExplicitContexts, ext \in ExtendsLists,
     sk \in BOOLEAN, oe \in BOOLEAN, env \in ExtensionVars}

\* Inputs without a prefix and with strict = false: a server field of every
\* schema, a client field, a shared field, and values that hold the server
\* key alone, every declared key, or a value the server field rejects.
NoPrefixServerShapes ==
  {<<>>} \cup {<<Field("BAR", s)>> : s \in Schemas \cup {"transform"}}
NoPrefixClientShapes == {<<>>, <<Field("FOO_BAR", "string")>>}
NoPrefixSharedShapes == {<<>>, <<Field("FOO_BAZ", "optional")>>}
NoPrefixExtends == {<<>>, <<("EXTRA" :> Str("x"))>>}
NoPrefixVars == {EmptyObject,
                 ("BAR" :> Str("123")),
                 ("BAR" :> Str("123")) @@ ("FOO_BAR" :> Str("foo")),
                 ("BAR" :> Str("bar")) @@ ("FOO_BAR" :> Str("foo")) @@ ("FOO_BAZ" :> Str("baz")),
                 ("BAR" :> Num("0")) @@ ("FOO_BAR" :> Str("foo"))}
NoPrefixInputs ==
  {Input(Options(NoPrefix, sv, cl, sh, FALSE, c[1], ext, FALSE, FALSE, FALSE), c[2], env) :
     sv \in NoPrefixServerShapes, cl \in NoPrefixClientShapes, sh \in NoPrefixSharedShapes,
     c \in ExplicitContexts, ext \in NoPrefixExtends, env \in NoPrefixVars}

Inputs == GuardInputs \cup ValidationInputs \cup ExtensionInputs \cup NoPrefixInputs

----------------------------------------------------------------------------
(* The state machine                                                       *)

NoRead == [prop |-> "", calls |-> <<>>, got |-> Returns(Undefined)]

Init ==
  \E i \in Inputs :
    /\ opts = i.opts
    /\ callerOpts = i.opts
    /\ hasWindow = i.window
    /\ runtimeEnv = i.vars
    /\ initialVars = i.vars
    /\ pc = "start"
    /\ result = NoOutcome
    /\ onErrorCalls = <<>>
    /\ consoleErrors = <<>>
    /\ onBreachCalls = <<>>
    /\ lastRead = NoRead

\* The caller calls createEnv(opts).
CreateEnv ==
  /\ pc = "start"
  /\ \E h \in HandlerChoices(opts.onError) :
       LET r == CreateEnvResult(opts, runtimeEnv, hasWindow, h) IN
         /\ runtimeEnv' = r.runtimeEnv
         /\ onErrorCalls' = onErrorCalls \o r.onErrorCalls
         /\ consoleErrors' = consoleErrors \o r.console
         /\ result' = r.outcome
  /\ opts' = OptionsAfter(opts, runtimeEnv, hasWindow)
  /\ pc' = "done"
  /\ UNCHANGED <<callerOpts, hasWindow, initialVars, onBreachCalls, lastRead>>

\* Mutant: the guard remembers the names it blocked and calls onInvalidAccess
\* for a name only the first time.
ReadRemembersBreach ==
  /\ pc = "done"
  /\ result.kind \in {"proxy", "raw"}
  /\ Len(onBreachCalls) < MaxBreachCalls
  /\ \E prop \in ReadProps \cup ShapeKeys(opts.client), h \in HandlerChoices(opts.onBreach) :
       LET r == GetTrap(opts, hasWindow, result, prop, h)
           seen == \E i \in DOMAIN onBreachCalls : onBreachCalls[i] = prop
           calls == IF seen THEN <<>> ELSE r.calls
       IN
         /\ onBreachCalls' = onBreachCalls \o calls
         /\ lastRead' = [prop |-> prop, calls |-> calls, got |-> r.got]
  /\ UNCHANGED <<opts, callerOpts, hasWindow, runtimeEnv, initialVars, pc, result,
                 onErrorCalls, consoleErrors>>

\* The caller reads env[prop] of the object createEnv returned: one of the
\* names above or a client key.
Read ==
  /\ pc = "done"
  /\ result.kind \in {"proxy", "raw"}
  /\ Len(onBreachCalls) < MaxBreachCalls
  /\ \E prop \in ReadProps \cup ShapeKeys(opts.client), h \in HandlerChoices(opts.onBreach) :
       LET r == GetTrap(opts, hasWindow, result, prop, h) IN
         /\ onBreachCalls' = onBreachCalls \o r.calls
         /\ lastRead' = [prop |-> prop, calls |-> r.calls, got |-> r.got]
  /\ UNCHANGED <<opts, callerOpts, hasWindow, runtimeEnv, initialVars, pc, result,
                 onErrorCalls, consoleErrors>>

Next == CreateEnv \/ Read

Spec == Init /\ [][Next]_vars

\* The property names the caller assigns to or deletes, and the value assigned.
WriteProps == {"BAR", "FOO_BAR"}
WrittenValue == Str("written")

\* The object without property prop.
DeleteProperty(obj, prop) == [k \in DOMAIN obj \ {prop} |-> obj[k]]

\* What an assignment or a delete leaves behind.  The Proxy handler has a get
\* trap and no other, so [[Set]] and [[Delete]] act on the target; a skip
\* result is the vars object itself.
Mutated(target) ==
  /\ result' = [result EXCEPT !.target = target]
  /\ runtimeEnv' = IF result.kind = "raw" THEN target ELSE runtimeEnv
  /\ UNCHANGED <<opts, callerOpts, hasWindow, initialVars, pc, onErrorCalls, consoleErrors,
                 onBreachCalls, lastRead>>

\* The caller evaluates env[prop] = WrittenValue on the returned object.
Assign ==
  /\ pc = "done"
  /\ result.kind \in {"proxy", "raw"}
  /\ \E prop \in WriteProps :
       Mutated(ObjectAssign(result.target, prop :> WrittenValue))

\* The caller evaluates delete env[prop] on the returned object.
Delete ==
  /\ pc = "done"
  /\ result.kind \in {"proxy", "raw"}
  /\ \E prop \in WriteProps :
       Mutated(DeleteProperty(result.target, prop))

\* The caller also assigns to and deletes properties of the returned object.
NextMutation == CreateEnv \/ Read \/ Assign \/ Delete

SpecMutation == Init /\ [][NextMutation]_vars

\* The caller calls createEnv(opts) a second time, with the same options
\* object and the same vars object.
CreateEnvAgain ==
  /\ pc = "done"
  /\ \E h \in HandlerChoices(opts.onError) :
       LET r == CreateEnvResult(opts, runtimeEnv, hasWindow, h) IN
         /\ runtimeEnv' = r.runtimeEnv
         /\ onErrorCalls' = onErrorCalls \o r.onErrorCalls
         /\ consoleErrors' = consoleErrors \o r.console
         /\ result' = r.outcome
  /\ opts' = OptionsAfter(opts, runtimeEnv, hasWindow)
  /\ pc' = "again"
  /\ UNCHANGED <<callerOpts, hasWindow, initialVars, onBreachCalls, lastRead>>

NextTwice == CreateEnv \/ CreateEnvAgain

SpecTwice == Init /\ [][NextTwice]_vars

\* Inputs of the Next.js entry point: whatever strict and prefix the caller
\* wrote, client keys with the prefix NEXT_PUBLIC_ and with the caller's own.
NextJsPrefixes == {NoPrefix, Prefix("FOO_"), Prefix(CLIENT_PREFIX)}
NextJsClientShapes == {<<Field("NEXT_PUBLIC_BAR", "string")>>, <<Field("FOO_BAR", "string")>>}
NextJsSharedShapes == {<<>>, <<Field("BAR", "string")>>}
NextJsVars == {("BAR" :> Str("bar")) @@ ("FOO_BAR" :> Str("foo")) @@ ("NEXT_PUBLIC_BAR" :> Str("pub")),
               ("NEXT_PUBLIC_BAR" :> Str("pub")) @@ ("FOO_BAZ" :> Str("baz")),
               ("BAR" :> Str("bar")) @@ ("FOO_BAR" :> Str("")) @@ ("NEXT_PUBLIC_BAR" :> Str(""))}
NextJsInputs ==
  {Input(Options(p, <<Field("BAR", "string")>>, cl, sh, st, c[1], ext, sk, oe, ob), c[2], env) :
     p \in NextJsPrefixes, cl \in NextJsClientShapes, sh \in NextJsSharedShapes,
     st \in BOOLEAN, c \in ExplicitContexts, ext \in NoPrefixExtends,
     sk \in BOOLEAN, oe \in BOOLEAN, ob \in BOOLEAN, env \in NextJsVars}

InitNextJs ==
  \E i \in NextJsInputs :
    /\ opts = i.opts
    /\ callerOpts = i.opts
    /\ hasWindow = i.window
    /\ runtimeEnv = i.vars
    /\ initialVars = i.vars
    /\ pc = "start"
    /\ result = NoOutcome
    /\ onErrorCalls = <<>>
    /\ consoleErrors = <<>>
    /\ onBreachCalls = <<>>
    /\ lastRead = NoRead

\* The caller calls createEnv(opts) of the Next.js entry point, which calls
\* createEnv with the options object it builds; that object is the one the
\* returned Proxy's get trap closes over.
NextCreateEnv ==
  /\ pc = "start"
  /\ \E h \in HandlerChoices(opts.onError) :
       LET r == CreateEnvResult(NextOptions(opts), runtimeEnv, hasWindow, h) IN
         /\ runtimeEnv' = r.runtimeEnv
         /\ onErrorCalls' = onErrorCalls \o r.onErrorCalls
         /\ consoleErrors' = consoleErrors \o r.console
         /\ result' = r.outcome
  /\ opts' = NextOptions(opts)
  /\ pc' = "done"
  /\ UNCHANGED <<callerOpts, hasWindow, initialVars, onBreachCalls, lastRead>>

NextJs == NextCreateEnv \/ Read

SpecNextJs == InitNextJs /\ [][NextJs]_vars

----------------------------------------------------------------------------
(* Vocabulary of the claims                                                *)

\* The context is trusted.
Trusted == IsServer(opts, hasWindow)

\* A non-empty prefix is configured.
PrefixConfigured == opts.prefix.defined /\ opts.prefix.s # ""

\* createEnv returned the guarded Result Object.
Guarded == pc = "done" /\ result.kind = "proxy"

\* The two meta-property names the guard answers with undefined.
MetaProps == {"__esModule", "$$typeof"}

ServerKeys == ShapeKeys(opts.server)
ClientKeys == ShapeKeys(opts.client)
SharedKeys == ShapeKeys(opts.shared)
ExtensionKeys == UNION {DOMAIN opts.extends[i] : i \in DOMAIN opts.extends}

\* The step is a read of property p of the returned object.
ReadOf(p) == pc = "done" /\ lastRead'.prop = p

\* The read of the step called onInvalidAccess once, with p, and evaluates to
\* what the handler did, not to the stored value.
Breached(p) ==
  /\ lastRead'.calls = <<p>>
  /\ onBreachCalls' = Append(onBreachCalls, p)
  /\ IF opts.onBreach
     THEN lastRead'.got \in HandlerOutcomes
     ELSE lastRead'.got = Throws(INVALID_ACCESS \o ": " \o p)
  /\ lastRead'.got # Returns(GetProp(result.target, p))

\* The read of the step called no handler and evaluates to the stored value.
ReadStored(p) ==
  /\ lastRead'.calls = <<>>
  /\ onBreachCalls' = onBreachCalls
  /\ lastRead'.got = Returns(GetProp(result.target, p))

----------------------------------------------------------------------------
(* C1: with a non-empty prefix, in an untrusted context, every read of a   *)
(* name that does not start with the prefix and is not a shared key calls  *)
(* onBreach with exactly that name and yields the handler's outcome.       *)

----------------------------------------------------------------------------
(* C2: in a trusted context no read calls onBreach, and every read of a    *)
(* server, client, shared or extension key returns its stored value.       *)

\* C2 as stated: every declared or extension key, whatever its name.
C2_TrustedReadsEveryKey ==
  [][\A p \in ReadProps :
       (ReadOf(p) /\ Trusted)
       => /\ lastRead'.calls = <<>> /\ onBreachCalls' = onBreachCalls
          /\ (p \in ServerKeys \cup ClientKeys \cup SharedKeys \cup ExtensionKeys
                => ReadStored(p))]_vars

\* C2 amended: in a trusted context, for every descriptor, no read calls
\* onBreach, and every read of a server, client, shared or extension key
\* other than __esModule and $$typeof returns its stored value.
C2_TrustedReadsStored ==
  [][\A p \in ReadProps :
       (ReadOf(p) /\ Trusted)
       => /\ lastRead'.calls = <<>> /\ onBreachCalls' = onBreachCalls
          /\ (p \in (ServerKeys \cup ClientKeys \cup SharedKeys \cup ExtensionKeys) \ MetaProps
                => ReadStored(p))]_vars

C2_Witness ==
  /\ Guarded /\ Trusted /\ PrefixConfigured
  /\ "BAR" \in ServerKeys /\ "BAR" \notin SharedKeys /\ opts.extends = <<>>
  /\ lastRead.prop = "BAR" /\ lastRead.got = Returns(Str("bar"))
  /\ onBreachCalls = <<>>

----------------------------------------------------------------------------
(* C3: when no prefix is configured (absent or the empty string) no read   *)
(* calls onBreach, in either context.                                      *)

----------------------------------------------------------------------------
(* C4: for every descriptor, reading a key declared in clientFields or     *)
(* sharedFields returns the stored value without calling onBreach, in the  *)
(* trusted and in the untrusted context.                                   *)

\* C4 as stated.
C4_ClientSharedAlwaysReadable ==
  [][\A p \in ReadProps :
       (Guarded /\ ReadOf(p) /\ p \in ClientKeys \cup SharedKeys)
       => ReadStored(p)]_vars

----------------------------------------------------------------------------
(* Vocabulary of the validation claims                                     *)

\* createEnv ran and did not skip validation.
Validated == pc = "done" /\ ~opts.skip

\* createEnv ended in the validation handler.
Failed == Validated /\ result.kind \in {"returned", "thrown"}

\* The keys of the schema the context selects.
SelectedKeys ==
  IF Trusted THEN ServerKeys \cup SharedKeys \cup ClientKeys
  ELSE ClientKeys \cup SharedKeys

\* The field schema a key of several groups is validated by.
ResolvedSchema(k) ==
  IF Trusted
  THEN IF k \in ClientKeys THEN SchemaOf(opts.client, k)
       ELSE IF k \in SharedKeys THEN SchemaOf(opts.shared, k)
       ELSE SchemaOf(opts.server, k)
  ELSE IF k \in SharedKeys THEN SchemaOf(opts.shared, k)
       ELSE SchemaOf(opts.client, k)

\* The declared fields whose (pruned) value their schema rejects.
FieldFails(k, schema) ==
  ~Accepts(schema, k \in DOMAIN runtimeEnv, GetProp(runtimeEnv, k))
FailingKeys == {k \in SelectedKeys : FieldFails(k, ResolvedSchema(k))}

\* The issues handed to the validation handler.
Issues == IF onErrorCalls = <<>> THEN <<>> ELSE onErrorCalls[1].issues
IssueKeys == {Issues[i] : i \in DOMAIN Issues}

\* The keys of the vars object no selected field declares.
ExtraKeys == DOMAIN runtimeEnv \ SelectedKeys

\* The keys declared by the server group alone.
ServerOnlyKeys == ServerKeys \ (ClientKeys \cup SharedKeys)

----------------------------------------------------------------------------
(* C5: in a trusted context the values are validated against server +      *)
(* shared + client fields, in an untrusted context against client + shared *)
(* fields only: validation fails exactly when a field of the selected      *)
(* schema is missing or invalid, so a missing or invalid server-only field *)
(* fails it in the trusted context and never in the untrusted one.         *)
C5_ContextSelectsSchema ==
  Validated =>
    /\ Failed <=> FailingKeys # {}
    /\ IssueKeys = FailingKeys
    /\ Trusted =>
         \A k \in ServerOnlyKeys :
           FieldFails(k, SchemaOf(opts.server, k)) => (Failed /\ k \in IssueKeys)
    /\ ~Trusted =>
         /\ IssueKeys \cap ServerOnlyKeys = {}
         /\ Failed =>
              \E k \in ClientKeys \cup SharedKeys : FieldFails(k, ResolvedSchema(k))

C5_Witness ==
  /\ Guarded /\ ~Trusted
  /\ opts.server = <<Field("BAR", "string")>>
  /\ opts.client = <<Field("FOO_BAR", "string")>>
  /\ "BAR" \notin DOMAIN runtimeEnv
  /\ onErrorCalls = <<>>

----------------------------------------------------------------------------
(* C6: with strict = true validation fails whenever the values hold a key  *)
(* that the schema being validated against does not declare.               *)

\* C6 as stated.
C6_StrictRejectsExtraKeys ==
  (Validated /\ opts.strict /\ ExtraKeys # {}) => (Failed /\ onErrorCalls # <<>>)

\* C6 amended: opts.strict is never read, so with strict = true a key of the
\* values that the selected schema does not declare never makes validation
\* fail (it fails exactly when a declared field is missing or invalid) and the
\* key is dropped from the Result Object.
C6_StrictIgnoresExtraKeys ==
  (Validated /\ opts.strict /\ ExtraKeys # {}) =>
    /\ Failed <=> FailingKeys # {}
    /\ onErrorCalls # <<>> <=> FailingKeys # {}
    /\ Guarded => (DOMAIN result.target \cap ExtraKeys) \subseteq ExtensionKeys

C6_Witness ==
  /\ Guarded /\ opts.strict
  /\ opts.server = <<>> /\ opts.shared = <<>>
  /\ opts.client = <<Field("FOO_BAR", "string")>>
  /\ runtimeEnv = ("FOO_BAR" :> Str("foo")) @@ ("FOO_BAZ" :> Str("baz"))
  /\ result.target = ("FOO_BAR" :> Str("foo"))

----------------------------------------------------------------------------
(* C7: in non-strict mode the keys of the values that the selected schema  *)
(* does not declare never make validation fail and never appear in the     *)
(* Result Object: every stored key is a declared key of the selected       *)
(* schema or an extension key.                                             *)
C7_NonStrictDropsExtraKeys ==
  (Validated /\ ~opts.strict) =>
    /\ Failed => (FailingKeys # {} /\ IssueKeys \subseteq SelectedKeys)
    /\ FailingKeys = {} => Guarded
    /\ Guarded => DOMAIN result.target \subseteq SelectedKeys \cup ExtensionKeys

C7_Witness ==
  /\ Guarded /\ ~opts.strict /\ Trusted
  /\ "FOO_BAZ" \in ExtraKeys /\ "BAR" \in ExtraKeys
  /\ opts.client = <<Field("FOO_BAR", "optional")>>
  /\ result.target = ("FOO_BAR" :> Str("foo"))

----------------------------------------------------------------------------
(* C8: on a validation failure onError is called exactly once with the     *)
(* engine's issues, what the handler returns or throws is what createEnv   *)
(* returns or throws, and no partial result is produced: no extension is   *)
(* merged and no guarded Result Object is built.                           *)
C8_FailureGoesToHandler ==
  (Validated /\ FailingKeys # {}) =>
    /\ Len(onErrorCalls) = 1
    /\ IssueKeys = FailingKeys /\ Len(Issues) = Cardinality(FailingKeys)
    /\ opts.onError => (onErrorCalls[1].did \in HandlerOutcomes /\ consoleErrors = <<>>)
    /\ onErrorCalls[1].did.kind = "throw" =>
         (result.kind = "thrown" /\ result.message = onErrorCalls[1].did.message)
    /\ onErrorCalls[1].did.kind = "return" =>
         (result.kind = "returned" /\ result.value = onErrorCalls[1].did.value)
    /\ result.kind # "proxy" /\ result.target = EmptyObject

C8_Witness ==
  /\ Validated /\ opts.onError /\ Trusted
  /\ Len(opts.extends) = 2
  /\ "BAR" \in FailingKeys
  /\ Len(onErrorCalls) = 1 /\ onErrorCalls[1].issues = <<"BAR">>
  /\ result.kind = "returned" /\ result.value = Str("fallback")

----------------------------------------------------------------------------
(* C9: with no onError supplied a validation failure never returns a       *)
(* Result Object: createEnv throws an error whose message is "Invalid      *)
(* environment variables" followed by the path of every failing field, one *)
(* entry per issue.                                                        *)
C9_DefaultHandlerThrows ==
  (Validated /\ ~opts.onError /\ FailingKeys # {}) =>
    /\ result.kind = "thrown"
    /\ IssueKeys = FailingKeys /\ Len(Issues) = Cardinality(FailingKeys)
    /\ result.message = "Invalid environment variables: " \o Join(Issues, ", ")

C9_Witness ==
  /\ Validated /\ ~opts.onError
  /\ FailingKeys = {"BAR", "FOO_BAR"}
  /\ result.kind = "thrown"
  /\ result.message = "Invalid environment variables: BAR, FOO_BAR"

----------------------------------------------------------------------------
(* C10: a key of the values whose value is the empty string is treated     *)
(* exactly like an absent key: createEnv gives the same outcome with       *)
(* K = "" as without K (an optional field is absent or defaulted, a        *)
(* required field fails as missing), while every other value, 0 and false  *)
(* included, reaches the schema unchanged.                                 *)

\* the object without key K
Without(env, K) == [k \in DOMAIN env \ {K} |-> env[k]]

EmptyStringKeys == {k \in DOMAIN initialVars : initialVars[k] = Str("")}

\* C10: what the call left behind for vars with K = "" is what createEnv gives
\* for the same vars without K, the field of K is treated as missing, and
\* every other value is kept in vars and stored as it was given.
C10_EmptyStringIsAbsent ==
  pc = "done" =>
    /\ \A K \in EmptyStringKeys :
         /\ K \notin DOMAIN runtimeEnv
         /\ \E h \in HandlerChoices(opts.onError) :
              LET r == CreateEnvResult(opts, Without(initialVars, K), hasWindow, h)
              IN  /\ r.outcome = result
                  /\ r.onErrorCalls = onErrorCalls
                  /\ r.console = consoleErrors
                  /\ r.runtimeEnv = runtimeEnv
         /\ (Validated /\ K \in SelectedKeys) =>
              /\ ResolvedSchema(K) \in {"string", "number"} =>
                   (Failed /\ K \in IssueKeys)
              /\ (ResolvedSchema(K) = "optional" /\ Guarded) =>
                   (K \in DOMAIN result.target => K \in ExtensionKeys)
              /\ (ResolvedSchema(K) = "default" /\ Guarded /\ K \notin ExtensionKeys) =>
                   result.target[K] = Str("dflt")
    /\ \A k \in DOMAIN initialVars \ EmptyStringKeys :
         /\ k \in DOMAIN runtimeEnv /\ runtimeEnv[k] = initialVars[k]
         /\ (Guarded /\ k \in SelectedKeys \ ExtensionKeys) =>
              result.target[k] = IF ResolvedSchema(k) = "transform"
                                 THEN Num(NumberOf(initialVars[k].v))
                                 ELSE initialVars[k]

C10_Witness ==
  /\ Guarded /\ Trusted
  /\ opts.server = <<Field("BAR", "number")>>
  /\ opts.client = <<Field("FOO_BAR", "default")>>
  /\ initialVars = ("BAR" :> Num("0")) @@ ("FOO_BAR" :> Str(""))
  /\ runtimeEnv = ("BAR" :> Num("0"))
  /\ result.target = ("BAR" :> Num("0")) @@ ("FOO_BAR" :> Str("dflt"))

----------------------------------------------------------------------------
(* C11: with skip = true createEnv returns the pruned vars object itself:  *)
(* onError is never called, even when declared fields are invalid or       *)
(* missing, no extension is merged and no guard is installed, so every     *)
(* read, of a server-only key in an untrusted context included, returns    *)
(* the value of the vars object without calling onBreach.                  *)

\* createEnv returned the vars object itself, pruned and nothing else.
SkipReturnedVars ==
  /\ result.kind = "raw"
  /\ result.target = runtimeEnv
  /\ runtimeEnv = [k \in {x \in DOMAIN initialVars : initialVars[x] # Str("")} |-> initialVars[k]]
  /\ onErrorCalls = <<>> /\ consoleErrors = <<>>
  /\ \A k \in ExtensionKeys \ DOMAIN initialVars : k \notin DOMAIN result.target
  /\ \A k \in DOMAIN result.target : result.target[k] = initialVars[k]

C11_SkipReturnsPrunedVars ==
  [][/\ (pc' = "done" /\ opts.skip) => SkipReturnedVars'
     /\ \A p \in ReadProps :
          (ReadOf(p) /\ opts.skip)
          => /\ ReadStored(p)
             /\ lastRead'.got = Returns(GetProp(runtimeEnv, p))]_vars

C11_Witness ==
  /\ pc = "done" /\ opts.skip /\ ~Trusted /\ PrefixConfigured
  /\ Len(opts.extends) = 2
  /\ opts.server = <<Field("BAR", "string")>>
  /\ opts.client = <<Field("FOO_BAR", "number")>>
  /\ initialVars = GuardVars
  /\ "FOO_BAR" \in FailingKeys
  /\ onErrorCalls = <<>> /\ onBreachCalls = <<>>
  /\ lastRead.prop = "BAR" /\ lastRead.got = Returns(Str("bar"))
  /\ result.target = GuardVars

----------------------------------------------------------------------------
(* C12: for every key, the value stored in the Result Object is the value  *)
(* of the last extension object that defines the key; when no extension    *)
(* defines it, it is the validated value of its field.  An extension value *)
(* always overrides the validated field of the same name.                  *)

\* The extension objects that define key k, by position in opts.extends.
DefinedBy(k) == {i \in DOMAIN opts.extends : k \in DOMAIN opts.extends[i]}

\* The last of them.
LastDefining(k) == CHOOSE i \in DefinedBy(k) : \A j \in DefinedBy(k) : j <= i

\* Field k of the selected schema gives no output: optional and absent.
NoOutput(k) == ResolvedSchema(k) = "optional" /\ k \notin DOMAIN runtimeEnv

\* The validated value of field k of the selected schema.
ValidatedValue(k) ==
  IF ResolvedSchema(k) = "default" /\ k \notin DOMAIN runtimeEnv
  THEN Str("dflt")
  ELSE IF ResolvedSchema(k) = "transform" THEN Num(NumberOf(runtimeEnv[k].v))
  ELSE runtimeEnv[k]

C12_LastExtensionWins ==
  Guarded =>
    /\ DOMAIN result.target =
         ExtensionKeys \cup {k \in SelectedKeys : ~NoOutput(k)}
    /\ \A k \in DOMAIN result.target :
         IF k \in ExtensionKeys
         THEN result.target[k] = opts.extends[LastDefining(k)][k]
         ELSE result.target[k] = ValidatedValue(k)

C12_Witness ==
  /\ Guarded /\ Trusted
  /\ opts.extends = <<("BAR" :> Str("preset2")) @@ ("EXTRA" :> Str("x")),
                      ("BAR" :> Str("preset1"))>>
  /\ "BAR" \in SelectedKeys /\ runtimeEnv["BAR"] = Str("bar")
  /\ result.target = ("BAR" :> Str("preset1")) @@ ("EXTRA" :> Str("x"))
                        @@ ("FOO_BAR" :> Str("foo"))

----------------------------------------------------------------------------
(* C13: the Result Object is read-only once constructed: nothing the       *)
(* caller does to it, assigning to a property or deleting one in           *)
(* particular, changes what a later read returns.                          *)

\* C13 as stated: whatever the step, every read of the guarded Result Object
\* gives after it what it gave before it.
C13_ResultIsReadOnly ==
  [][Guarded =>
       \A p \in ReadProps, h \in HandlerChoices(opts.onBreach) :
         GetTrap(opts, hasWindow, result', p, h) = GetTrap(opts, hasWindow, result, p, h)]_vars

----------------------------------------------------------------------------
(* C14: a descriptor that violates the prefix partition under a non-empty  *)
(* prefix (a client key that does not start with the prefix, or a server   *)
(* key that starts with it) is rejected by createEnv: it is never accepted *)
(* and turned into a Result Object.                                        *)

\* The descriptor violates the prefix partition.
ViolatesPartition ==
  /\ PrefixConfigured
  /\ \/ \E k \in ClientKeys : ~StartsWith(k, opts.prefix.s)
     \/ \E k \in ServerKeys : StartsWith(k, opts.prefix.s)

\* C14 as stated.
C14_PartitionViolationRejected ==
  (Validated /\ ViolatesPartition) => result.kind \in {"thrown", "returned"}

----------------------------------------------------------------------------
(* C15: for every descriptor with strict = false and no prefix, values     *)
(* that hold every server-field key with a valid value validate            *)
(* successfully, and the result contains exactly those keys, mapped to     *)
(* their parsed values, plus the extension keys.                           *)

\* The (pruned) values hold every server-field key with a value its schema accepts.
ServerValuesValid ==
  \A k \in ServerKeys :
    k \in DOMAIN runtimeEnv /\ ~FieldFails(k, SchemaOf(opts.server, k))

\* C15 as stated.
C15_ServerValuesSuffice ==
  (Validated /\ ~opts.strict /\ ~PrefixConfigured /\ ServerValuesValid) =>
    /\ Guarded
    /\ DOMAIN result.target = ServerKeys \cup ExtensionKeys
    /\ \A k \in ServerKeys \ ExtensionKeys :
         result.target[k] =
           OutputValue(SchemaOf(opts.server, k), TRUE, runtimeEnv[k])

\* C15 amended: with strict = false and no prefix, createEnv succeeds exactly
\* when the values are valid for every field of the schema the context
\* selects (server, shared and client fields in a trusted context, client and
\* shared fields in an untrusted one); valid values for the server fields alone
\* do not suffice.  The result then holds exactly the fields of that schema that
\* give an output, each with its parsed value, and the extension keys; in an
\* untrusted context no server-only field is stored.
C15_SelectedValuesSuffice ==
  (Validated /\ ~opts.strict /\ ~PrefixConfigured) =>
    /\ Guarded <=> \A k \in SelectedKeys : ~FieldFails(k, ResolvedSchema(k))
    /\ (ServerValuesValid /\ Trusted
          /\ \E k \in ClientKeys \cup SharedKeys : FieldFails(k, ResolvedSchema(k)))
         => Failed
    /\ Guarded =>
         /\ DOMAIN result.target =
              {k \in SelectedKeys : ~NoOutput(k)} \cup ExtensionKeys
         /\ \A k \in DOMAIN result.target \ ExtensionKeys :
              result.target[k] = ValidatedValue(k)
         /\ ~Trusted =>
              DOMAIN result.target \cap ServerOnlyKeys \subseteq ExtensionKeys

C15_Witness ==
  /\ Guarded /\ ~opts.strict /\ opts.prefix = NoPrefix /\ Trusted
  /\ opts.server = <<Field("BAR", "transform")>>
  /\ opts.client = <<Field("FOO_BAR", "string")>>
  /\ opts.shared = <<Field("FOO_BAZ", "optional")>>
  /\ runtimeEnv = ("BAR" :> Str("123")) @@ ("FOO_BAR" :> Str("foo"))
  /\ result.target = ("BAR" :> Num("123")) @@ ("FOO_BAR" :> Str("foo"))
                        @@ ("EXTRA" :> Str("x"))

----------------------------------------------------------------------------
(* C16: createEnv of the Next.js entry point always calls the core         *)
(* createEnv with strict = true and prefix = "NEXT_PUBLIC_", whatever      *)
(* strict and prefix the caller's options hold, and forwards every other   *)
(* option unchanged, so what it returns, and every read of it, is what the *)
(* core gives for that descriptor.                                         *)

\* The options the caller wrote, with strict = true and prefix NEXT_PUBLIC_.
NextJsDescriptor ==
  [callerOpts EXCEPT !.strict = TRUE, !.prefix = Prefix("NEXT_PUBLIC_")]

ForwardedOptions ==
  {"server", "client", "shared", "extends", "isServer", "skip", "onError", "onBreach"}

\* The core was called with the descriptor above, and what the call left
\* behind is what the core leaves behind for that descriptor.
CalledCoreWithDescriptor ==
  /\ opts.strict = TRUE
  /\ opts.prefix = Prefix("NEXT_PUBLIC_")
  /\ \A f \in ForwardedOptions : opts[f] = callerOpts[f]
  /\ DOMAIN opts = DOMAIN callerOpts
  /\ \E h \in HandlerChoices(callerOpts.onError) :
       LET r == CreateEnvResult(NextJsDescriptor, initialVars, hasWindow, h)
       IN  /\ r.outcome = result
           /\ r.onErrorCalls = onErrorCalls
           /\ r.console = consoleErrors
           /\ r.runtimeEnv = runtimeEnv

\* The latest read of the returned object gave what the get trap of the core
\* gives for the descriptor above.
ReadAsCoreReads ==
  \E h \in HandlerChoices(callerOpts.onBreach) :
    LET r == GetTrap(NextJsDescriptor, hasWindow, result, lastRead.prop, h)
    IN  /\ lastRead.calls = r.calls /\ lastRead.got = r.got
        /\ r.calls # <<>> => onBreachCalls[Len(onBreachCalls)] = lastRead.prop

C16_NextJsForcesStrictAndPrefix ==
  pc = "done" =>
    /\ CalledCoreWithDescriptor
    /\ lastRead # NoRead => ReadAsCoreReads

C16_Witness ==
  /\ Guarded /\ ~Trusted
  /\ callerOpts.prefix = Prefix("FOO_") /\ callerOpts.strict = FALSE
  /\ opts.prefix = Prefix("NEXT_PUBLIC_") /\ opts.strict = TRUE
  /\ opts.client = <<Field("FOO_BAR", "string")>> /\ opts.shared = <<>>
  /\ opts.onBreach
  /\ result.target = ("FOO_BAR" :> Str("foo")) @@ ("EXTRA" :> Str("x"))
  /\ lastRead.prop = "FOO_BAR" /\ lastRead.calls = <<"FOO_BAR">>
  /\ onBreachCalls = <<"FOO_BAR">>

----------------------------------------------------------------------------
(* C17: the guard is stateless across reads: the outcome of a read (the    *)
(* value returned, or onBreach called) depends on the name read alone,     *)
(* never on the reads before it; a read that called onBreach leaves the    *)
(* Result Object as it was, and every read of a blocked name calls         *)
(* onBreach once more, so n reads of it call onBreach n times.             *)
C17_GuardIsStateless ==
  [][\A p \in ReadProps :
       (Guarded /\ ReadOf(p)) =>
         /\ result' = result /\ pc' = pc
         /\ lastRead'.calls = GetTrap(opts, hasWindow, result, p, Throws("")).calls
         /\ \E h \in HandlerChoices(opts.onBreach) :
              lastRead'.got = GetTrap(opts, hasWindow, result, p, h).got
         /\ onBreachCalls' = onBreachCalls \o lastRead'.calls
         /\ Len(onBreachCalls') =
              Len(onBreachCalls) + (IF lastRead'.calls = <<>> THEN 0 ELSE 1)]_vars

C17_Witness ==
  /\ Guarded /\ ~Trusted /\ PrefixConfigured
  /\ "BAR" \in ServerOnlyKeys /\ opts.onBreach
  /\ onBreachCalls = <<"BAR", "BAR">>
  /\ lastRead.prop = "BAR" /\ lastRead.calls = <<"BAR">>
  /\ lastRead.got = Returns(Str("fallback"))
  /\ result.target = ("FOO_BAR" :> Str("foo"))

----------------------------------------------------------------------------
(* C18: pruning mutates the caller's vars object in place and changes      *)
(* nothing else of it: when createEnv has finished, on any path (skip,     *)
(* validation failure, success), the object has no key whose value is the  *)
(* empty string and every other key is still there with its original       *)
(* value; no key is added.                                                 *)

\* The vars object is the original one less its empty-string keys.
OnlyPruned ==
  /\ \A k \in DOMAIN runtimeEnv : runtimeEnv[k] # Str("")
  /\ \A k \in DOMAIN initialVars :
       initialVars[k] # Str("") => (k \in DOMAIN runtimeEnv /\ runtimeEnv[k] = initialVars[k])
  /\ DOMAIN runtimeEnv \subseteq DOMAIN initialVars

C18_PruningInPlaceOnEveryPath ==
  /\ pc = "start" => runtimeEnv = initialVars
  /\ (pc = "done" /\ opts.skip) => (result.kind = "raw" /\ OnlyPruned)
  /\ (pc = "done" /\ Failed) => OnlyPruned
  /\ (pc = "done" /\ Guarded) => OnlyPruned
  /\ pc = "done" => (opts.skip \/ Failed \/ Guarded)

C18_Witness ==
  /\ pc = "done" /\ Failed /\ result.kind = "thrown"
  /\ Len(opts.extends) = 2
  /\ initialVars = ("BAR" :> Str("")) @@ ("FOO_BAR" :> Str("foo"))
  /\ runtimeEnv = ("FOO_BAR" :> Str("foo"))
  /\ Issues = <<"BAR">>

----------------------------------------------------------------------------
(* C19: in an untrusted context the outcome of validation does not depend  *)
(* on server-only data: for vars objects that agree on every client and    *)
(* shared key createEnv has the same outcome (success, or the same failing *)
(* paths) and stores the same values, and no value of a server-only key of *)
(* the vars object is stored in the Result Object.                         *)

\* The part of obj on the keys K.
Pick(obj, K) == [k \in DOMAIN obj \cap K |-> obj[k]]

\* The keys that are neither client nor shared keys, and the values the other
\* vars object gives them.
UnexposedKeys == (VarKeys \cup ServerKeys) \ (ClientKeys \cup SharedKeys)
UnexposedValues == {Str(""), Str("secret"), Num("0")}

\* The vars objects that agree with the original one on the client and shared keys.
VarsAgreeingOnExposed ==
  {ObjectAssign(Pick(initialVars, ClientKeys \cup SharedKeys), other) :
     other \in UNION {[d -> UnexposedValues] : d \in SUBSET UnexposedKeys}}

C19_UntrustedIgnoresServerOnly ==
  (Validated /\ ~Trusted) =>
    /\ \A other \in VarsAgreeingOnExposed :
         \E h \in HandlerChoices(opts.onError) :
           LET r == CreateEnvResult(opts, other, hasWindow, h)
           IN  /\ r.outcome = result
               /\ r.onErrorCalls = onErrorCalls
               /\ r.console = consoleErrors
    /\ Guarded =>
         \A k \in DOMAIN result.target \ (ClientKeys \cup SharedKeys) :
           k \in ExtensionKeys /\ result.target[k] = opts.extends[LastDefining(k)][k]

C19_Witness ==
  /\ Guarded /\ ~Trusted /\ lastRead = NoRead
  /\ opts.server = <<Field("BAR", "string")>>
  /\ opts.client = <<Field("FOO_BAR", "string")>>
  /\ opts.shared = <<>> /\ opts.extends = <<>>
  /\ initialVars = ("BAR" :> Str("bar")) @@ ("FOO_BAR" :> Str("foo")) @@ ("FOO_BAZ" :> Str("baz"))
  /\ result.target = ("FOO_BAR" :> Str("foo"))

----------------------------------------------------------------------------
(* C20: a field name declared in more than one group is resolved, in the   *)
(* schema of a trusted context, as client over shared over server, and in  *)
(* the schema of an untrusted context as shared over client; a name of     *)
(* both client and shared with different schemas is validated by the       *)
(* client schema in a trusted context and by the shared schema in an       *)
(* untrusted one.                                                          *)

\* The names declared in more than one group.
MultiGroupKeys ==
  (ServerKeys \cap ClientKeys) \cup (ServerKeys \cap SharedKeys)
    \cup (ClientKeys \cap SharedKeys)

\* The group's schema that wins for such a name.
ClientOverSharedOverServer(k) ==
  IF k \in ClientKeys THEN SchemaOf(opts.client, k)
  ELSE IF k \in SharedKeys THEN SchemaOf(opts.shared, k)
  ELSE SchemaOf(opts.server, k)
SharedOverClient(k) ==
  IF k \in SharedKeys THEN SchemaOf(opts.shared, k) ELSE SchemaOf(opts.client, k)

C20_GroupPrecedence ==
  Validated =>
    \A k \in MultiGroupKeys \cap SelectedKeys :
      LET winner == IF Trusted THEN ClientOverSharedOverServer(k) ELSE SharedOverClient(k)
      IN  /\ SchemaOf(SelectedShape(opts, hasWindow), k) = winner
          /\ k \in IssueKeys <=> FieldFails(k, winner)
          /\ (Guarded /\ k \notin ExtensionKeys) =>
               IF winner = "optional" /\ k \notin DOMAIN runtimeEnv
               THEN k \notin DOMAIN result.target
               ELSE result.target[k] =
                      OutputValue(winner, k \in DOMAIN runtimeEnv, GetProp(runtimeEnv, k))
          /\ k \in ClientKeys \cap SharedKeys =>
               (k \in IssueKeys <=>
                  FieldFails(k, IF Trusted THEN SchemaOf(opts.client, k)
                                ELSE SchemaOf(opts.shared, k)))

C20_Witness ==
  /\ Guarded /\ Trusted
  /\ opts.client = <<Field("FOO_BAR", "string")>>
  /\ opts.shared = <<Field("FOO_BAR", "number")>>
  /\ opts.server = <<Field("FOO_BAR", "string")>>
  /\ runtimeEnv = ("FOO_BAR" :> Str("foo"))
  /\ result.target = ("FOO_BAR" :> Str("foo"))
  /\ onErrorCalls = <<>>

----------------------------------------------------------------------------
(* C21: repeated calls are independent and pruning is idempotent: two      *)
(* calls of createEnv in succession with the same options and the same     *)
(* vars object give the same outcome and the same stored values, the       *)
(* second call leaves the vars object unchanged, and neither call changes  *)
(* the caller's extension objects or schema groups.                        *)

\* The step is the first call of createEnv.
FirstCall == pc = "start" /\ pc' = "done"

\* The step is the second call.
SecondCall == pc = "done" /\ pc' = "again"

C21_RepeatedCallsIndependent ==
  [][/\ (FirstCall \/ SecondCall) =>
          /\ opts'.extends = callerOpts.extends
          /\ opts'.server = callerOpts.server
          /\ opts'.client = callerOpts.client
          /\ opts'.shared = callerOpts.shared
          /\ opts' = opts
     /\ SecondCall =>
          /\ runtimeEnv' = runtimeEnv
          /\ result'.kind \in {"thrown", "returned"} <=> result.kind \in {"thrown", "returned"}
          /\ result.kind \in {"raw", "proxy"} =>
               (result' = result /\ onErrorCalls' = <<>> /\ consoleErrors' = <<>>)
          /\ result.kind \in {"thrown", "returned"} =>
               /\ Len(onErrorCalls) = 1 /\ Len(onErrorCalls') = 2
               /\ onErrorCalls'[1] = onErrorCalls[1]
               /\ onErrorCalls'[2].issues = onErrorCalls[1].issues
               /\ onErrorCalls'[2].did = onErrorCalls[1].did => result' = result
               /\ ~opts.onError =>
                    (result' = result /\ consoleErrors' = consoleErrors \o consoleErrors)]_vars

C21_Witness ==
  /\ pc = "again" /\ ~Trusted /\ result.kind = "proxy"
  /\ opts.extends = <<("BAR" :> Str("preset1")),
                      ("BAR" :> Str("preset2")) @@ ("EXTRA" :> Str("x"))>>
  /\ initialVars = ("BAR" :> Str("")) @@ ("FOO_BAR" :> Str("foo"))
  /\ runtimeEnv = ("FOO_BAR" :> Str("foo"))
  /\ result.target = ("BAR" :> Str("preset2")) @@ ("EXTRA" :> Str("x"))
                        @@ ("FOO_BAR" :> Str("foo"))
  /\ onErrorCalls = <<>>

====
